---- MODULE Spec2Model ----
(***************************************************************************)
(* Model of the WLWV calendar API (src/server.js): an express application  *)
(* over a node-postgres pool.  Every route handler is an async function;   *)
(* it runs synchronously up to `await pool.connect()`, resumes when the    *)
(* pool hands out a client, sends one statement, and resumes when the      *)
(* store answers.  Each of these resumptions is one action.                *)
(***************************************************************************)
EXTENDS Integers, Sequences, FiniteSets, TLC

VARIABLES
    tz,             \* offset of the process's local time, minutes east of UTC
    pool,           \* the global `pool` handle: NoPool or an index of pools
    pools,          \* every Pool constructed: [out: clients checked out,
                    \*   ended: end() was called, ends: calls of end()]
    events,         \* rows of table events
    materials,      \* rows of table materials
    day_schedules,  \* rows of table day_schedules
    day_types,      \* rows of table day_types
    date_configs,   \* rows of the DateConfig entity, one per date key
    eventSeq,       \* last value of the SERIAL sequence of events.id
    materialSeq,    \* last value of the SERIAL sequence of materials.id
    now,            \* the store's clock (CURRENT_TIMESTAMP)
    req             \* per client: the request in flight or its response

vars == <<tz, pool, pools, events, materials, day_schedules, day_types, date_configs,
          eventSeq, materialSeq, now, req>>

tables == <<events, materials, day_schedules, day_types, date_configs,
            eventSeq, materialSeq, now>>

----------------------------------------------------------------------------
(* Bounds of the exploration *)

\* rows a SERIAL sequence hands out before creates stop
MaxId == 2
\* timestamped writes before writes stop
MaxClock == 3
\* clients a failed statement may leave checked out before faults stop
MaxLeaks == 1

\* pools constructed in a run, the one of the start included
MaxPools == 3

\* calls of end() on one pool
MaxEnds == 2

(* Program constants *)

\* let pool = null
NoPool == 0
\* max: 20
PoolMax == 20

\* JS null / undefined / absent field, and SQL NULL
Null == "NULL"

Clients == {"c1", "c2", "c3"}

TZOffsets == {0 - 300, 0, 120}

----------------------------------------------------------------------------
(* Dates.  A canonical date YYYY-MM-DD is the number of its day; an instant *)
(* is a number of minutes since day 0, 00:00 UTC.                           *)

\* a request's date field: absent, an unparseable string, an ISO date-only
\* string (read as UTC by Date), or a date-time string without zone (read as
\* local time by Date)
DateInputs ==
    { [kind |-> "absent", day |-> 0, min |-> 0],
      [kind |-> "bad",    day |-> 0, min |-> 0],
      [kind |-> "date",   day |-> 10, min |-> 0],
      [kind |-> "local",  day |-> 12, min |-> 0] }

\* new Date(year, month, day): a Date at local midnight, as pg builds for a
\* DATE column
LocalMidnight(day) ==
    LET t == day * 1440 - tz
    IN  [kind |-> "Date", day |-> t \div 1440, min |-> t % 1440]

\* formatDate(dateInput): [tag |-> "null"], [tag |-> "throw"] or the day
formatDate(dateInput) ==
    IF dateInput.kind = "absent" THEN [tag |-> "null", day |-> 0]
    ELSE IF dateInput.kind = "Date" THEN [tag |-> "ok", day |-> dateInput.day]
    ELSE IF dateInput.kind = "bad" THEN [tag |-> "throw", day |-> 0]
    ELSE IF dateInput.kind = "date" THEN [tag |-> "ok", day |-> dateInput.day]
    ELSE [tag |-> "ok", day |-> (dateInput.day * 1440 + dateInput.min - tz) \div 1440]

\* date: formatDate(row.date) of a row read from the store
RowDateOut(day) == formatDate(LocalMidnight(day)).day

----------------------------------------------------------------------------
(* Inputs of the requests *)

Falsy(v) == v = Null \/ v = ""

OrElse(v, d) == IF Falsy(v) THEN d ELSE v

SchoolInputs == {Null, "wlhs", "wvhs", "other"}

\* the optional fields of an event: all absent, all given, the time alone
EventOptionals ==
    { [department |-> Null, time |-> Null, description |-> Null],
      [department |-> "d", time |-> "09:00:00", description |-> "x"],
      [department |-> Null, time |-> "14:30:00", description |-> Null] }

\* req.body of POST /api/events
EventBodies ==
    { [school |-> s, date |-> d, title |-> t, department |-> o.department,
       time |-> o.time, description |-> o.description] :
        s \in SchoolInputs, d \in DateInputs, t \in {Null, "t1"}, o \in EventOptionals }

\* req.body of PUT /api/events/:id
EventUpdates ==
    { [title |-> t, department |-> o.department, time |-> o.time,
       description |-> o.description] : t \in {Null, "t2"}, o \in EventOptionals }

\* grade_level of a body, grade of a query: absent or a text
GradeInputs == {Null, "9", "12", "13", "x"}

\* the optional fields of a material, all absent or all given
MaterialOptionals ==
    { [description |-> Null, password |-> Null],
      [description |-> "x", password |-> "pw"] }

\* req.body of POST /api/materials
MaterialBodies ==
    { [school |-> s, date |-> d, grade_level |-> g, title |-> t, link |-> l,
       description |-> o.description, password |-> o.password] :
        s \in SchoolInputs, d \in DateInputs, g \in GradeInputs,
        t \in {Null, "t1"}, l \in {Null, "l1"}, o \in MaterialOptionals }

\* req.body of PUT /api/materials/:id
MaterialUpdates ==
    { [title |-> t, link |-> l, description |-> o.description, password |-> o.password] :
        t \in {Null, "t2"}, l \in {Null, "l2"}, o \in MaterialOptionals }

\* req.query of GET /api/materials
MaterialQueries == [school : SchoolInputs, grade : GradeInputs]

\* schedule of a body of POST /api/day-schedules
ScheduleInputs == {Null, "A", "B", "C"}

\* type of a body of POST /api/day-types
TypeInputs == {Null, "exam", "holiday"}

\* req.body of POST /api/day-schedules and of POST /api/day-types
DayBodies(values) == [date : DateInputs, value : values]

\* req.params.id: the text of a path segment
IdInputs == {ToString(i) : i \in 1..(MaxId + 1)} \cup {"abc"}

----------------------------------------------------------------------------
(* The store *)

\* the store reading the text of a parameter compared with an INTEGER column:
\* the number, or an error (invalid input syntax for type integer)
PgInteger(text) ==
    IF \E i \in 0..(MaxId + 1) : ToString(i) = text
    THEN [ok |-> TRUE, v |-> CHOOSE i \in 0..(MaxId + 1) : ToString(i) = text]
    ELSE [ok |-> FALSE, v |-> 0]

\* parseInt(text): the number a decimal text denotes, NaN (here -1) otherwise
parseInt(text) ==
    IF \E i \in 0..20 : ToString(i) = text
    THEN CHOOSE i \in 0..20 : ToString(i) = text
    ELSE 0 - 1

\* the value of a TIME column: minutes since midnight
PgTime(text) == IF text = "09:00:00" THEN 540 ELSE 870

\* ORDER BY time ASC: NULL sorts after every time
TimeOrd(t) == IF t = Null THEN 1440 ELSE PgTime(t)

\* EventBefore with the last key reversed: ORDER BY date ASC, time ASC, id DESC
EventBeforeIdDesc(x, y) ==
    \/ x.date < y.date
    \/ x.date = y.date /\ TimeOrd(x.time) < TimeOrd(y.time)
    \/ x.date = y.date /\ TimeOrd(x.time) = TimeOrd(y.time) /\ x.id >= y.id

\* ORDER BY date ASC, time ASC, id ASC
EventBefore(x, y) ==
    \/ x.date < y.date
    \/ x.date = y.date /\ TimeOrd(x.time) < TimeOrd(y.time)
    \/ x.date = y.date /\ TimeOrd(x.time) = TimeOrd(y.time) /\ x.id <= y.id

RECURSIVE SortEvents(_)
SortEvents(S) ==
    IF S = {} THEN << >>
    ELSE LET m == CHOOSE x \in S : \A y \in S : EventBefore(x, y)
         IN  <<m>> \o SortEvents(S \ {m})

\* SELECT ... FROM events WHERE school = $1 ORDER BY date ASC, time ASC, id ASC
SelectEvents(rows, school) == SortEvents({r \in rows : r.school = school})

\* INSERT INTO events (...) VALUES ($1..$6, CURRENT_TIMESTAMP) RETURNING ...
InsertEvent(id, school, date, title, department, time, description, ts) ==
    [id |-> id, school |-> school, date |-> date, title |-> title,
     department |-> department, time |-> time, description |-> description,
     created_at |-> ts, updated_at |-> ts]

\* UpdateEvents without its WHERE clause
UpdateEventsNoWhere(rows, id, title, department, time, description, ts) ==
    { [r EXCEPT !.title = title, !.department = department, !.time = time,
                !.description = description, !.updated_at = ts] : r \in rows }

\* UPDATE events SET title, department, time, description, updated_at WHERE id = $5
UpdateEvents(rows, id, title, department, time, description, ts) ==
    { IF r.id = id
      THEN [r EXCEPT !.title = title, !.department = department, !.time = time,
                     !.description = description, !.updated_at = ts]
      ELSE r : r \in rows }

\* ORDER BY date ASC, grade_level ASC, id ASC
MaterialBefore(x, y) ==
    \/ x.date < y.date
    \/ x.date = y.date /\ x.grade_level < y.grade_level
    \/ x.date = y.date /\ x.grade_level = y.grade_level /\ x.id <= y.id

RECURSIVE SortMaterials(_)
SortMaterials(S) ==
    IF S = {} THEN << >>
    ELSE LET m == CHOOSE x \in S : \A y \in S : MaterialBefore(x, y)
         IN  <<m>> \o SortMaterials(S \ {m})

\* SELECT ... FROM materials WHERE school = $1 [AND grade_level = $2]
\* ORDER BY date ASC, grade_level ASC, id ASC
SelectMaterials(rows, school, grade) ==
    SortMaterials({r \in rows : r.school = school /\ (Falsy(grade) \/ r.grade_level = parseInt(grade))})

\* INSERT INTO materials (...) VALUES ($1..$7, CURRENT_TIMESTAMP) RETURNING ...
InsertMaterial(id, school, date, grade, title, link, description, password, ts) ==
    [id |-> id, school |-> school, date |-> date, grade_level |-> grade,
     title |-> title, link |-> link, description |-> description,
     password |-> password, created_at |-> ts, updated_at |-> ts]

\* UPDATE materials SET title, link, description, password, updated_at WHERE id = $5
UpdateMaterials(rows, id, title, link, description, password, ts) ==
    { IF r.id = id
      THEN [r EXCEPT !.title = title, !.link = link, !.description = description,
                     !.password = password, !.updated_at = ts]
      ELSE r : r \in rows }

\* DELETE FROM events WHERE id = $1
DeleteById(rows, id) == {r \in rows : r.id # id}

\* DeleteByDate without its WHERE clause
DeleteByDateNoWhere(rows, date) == {}

\* DELETE FROM day_schedules WHERE date = $1 (and the same of day_types)
DeleteByDate(rows, date) == {r \in rows : r.date # date}

\* UpsertByDate with ON CONFLICT (date) DO NOTHING
InsertOrKeepByDate(rows, date, value, ts) ==
    IF \E r \in rows : r.date = date THEN rows
    ELSE rows \cup {[date |-> date, value |-> value, created_at |-> ts, updated_at |-> ts]}

\* UpsertByDate without its ON CONFLICT clause, on a table without the key
InsertByDate(rows, date, value, ts) ==
    rows \cup {[date |-> date, value |-> value, created_at |-> ts, updated_at |-> ts]}

\* INSERT INTO day_schedules (date, schedule, updated_at) VALUES ($1, $2, CURRENT_TIMESTAMP)
\* ON CONFLICT (date) DO UPDATE SET schedule = $2, updated_at = CURRENT_TIMESTAMP
\* (and the same of day_types, column type)
UpsertByDate(rows, date, value, ts) ==
    IF \E r \in rows : r.date = date
    THEN { IF r.date = date THEN [r EXCEPT !.value = value, !.updated_at = ts] ELSE r : r \in rows }
    ELSE rows \cup {[date |-> date, value |-> value, created_at |-> ts, updated_at |-> ts]}

\* ORDER BY date ASC
RECURSIVE SortByDate(_)
SortByDate(S) ==
    IF S = {} THEN << >>
    ELSE LET m == CHOOSE x \in S : \A y \in S : x.date <= y.date
         IN  <<m>> \o SortByDate(S \ {m})

\* a row of day_schedules or day_types as the handlers send it
DayOut(r) == [date |-> RowDateOut(r.date), value |-> r.value]

\* a row as the handlers send it: ...row, date: formatDate(row.date)
RowOut(r) == [r EXCEPT !.date = RowDateOut(r.date)]

\* result.rows.map(row => ({...row, date: formatDate(row.date)}))
RowsOut(s) == [i \in 1..Len(s) |-> RowOut(s[i])]

\* result.rows.map(row => ({date: formatDate(row.date), schedule: row.schedule}))
DaysOut(s) == [i \in 1..Len(s) |-> DayOut(s[i])]

----------------------------------------------------------------------------
(* Requests *)

Idle == [op |-> "none", pc |-> "idle", p |-> NoPool, arg |-> << >>, fd |-> 0,
         status |-> 0, result |-> << >>, faulted |-> FALSE, sent |-> 0]

Free(c) == req[c].pc = "idle"

\* the client has read the response and may send its next request
Close(c) ==
    /\ req[c].pc = "done"
    /\ req' = [req EXCEPT ![c] = Idle]
    /\ UNCHANGED <<tz, pool, pools, tables>>

\* res.status(status).json(result): the handler ends
Respond(c, op, arg, status, result) ==
    req' = [req EXCEPT ![c] = [op |-> op, pc |-> "done", p |-> pool, arg |-> arg,
                               fd |-> 0, status |-> status, result |-> result,
                               faulted |-> FALSE, sent |-> 0]]

\* the handler reaches `await pool.connect()`, which rejects at once on a
\* pool whose end() was called: the catch block answers 500
AwaitConnect(c, op, arg, fd) ==
    req' = [req EXCEPT ![c] =
               IF pools[pool].ended
               THEN [op |-> op, pc |-> "done", p |-> pool, arg |-> arg, fd |-> fd,
                     status |-> 500,
                     result |-> "Cannot use a pool after calling end on the pool",
                     faulted |-> FALSE, sent |-> 0]
               ELSE [op |-> op, pc |-> "connect", p |-> pool, arg |-> arg, fd |-> fd,
                     status |-> 0, result |-> << >>, faulted |-> FALSE, sent |-> 0]]

\* the handler holds a client and sends no statement: the checks made after
\* pool.connect(), of the grade of a list and of the schedule of a write
NoStatement(c) ==
    \/ /\ req[c].op = "GET materials" /\ ~Falsy(req[c].arg.grade)
       /\ parseInt(req[c].arg.grade) \notin {9, 10, 11, 12}
    \/ /\ req[c].op = "POST day-schedules" /\ ~Falsy(req[c].arg.value)
       /\ req[c].arg.value \notin {"A", "B"}

\* the handler's catch block: no release. A rejected statement was sent.
Catch(c, msg, fault) ==
    req' = [req EXCEPT ![c].pc = "done", ![c].status = 500, ![c].result = msg,
                       ![c].faulted = fault,
                       ![c].sent = IF req[c].pc = "query" THEN @ + 1 ELSE @]

\* the statement answered (if one was sent), client.release(), then
\* res.status(status).json(result)
ReleaseRespond(c, status, result) ==
    /\ pools' = [pools EXCEPT ![req[c].p].out = @ - 1]
    /\ req' = [req EXCEPT ![c].pc = "done", ![c].status = status, ![c].result = result,
                          ![c].sent = IF NoStatement(c) THEN @ ELSE @ + 1]

\* clients checked out of pool p that no request in flight holds
Leaked(p) == pools[p].out - Cardinality({c \in Clients : req[c].pc = "query" /\ req[c].p = p})

RECURSIVE LeakedUpTo(_)
LeakedUpTo(p) == IF p = 0 THEN 0 ELSE Leaked(p) + LeakedUpTo(p - 1)

\* clients left checked out, of all pools
Leaks == LeakedUpTo(Len(pools))

\* pool.connect() resolves: the handler sends its statement
Connect(c) ==
    /\ req[c].pc = "connect"
    /\ pools[req[c].p].out < PoolMax
    /\ pools' = [pools EXCEPT ![req[c].p].out = @ + 1]
    /\ req' = [req EXCEPT ![c].pc = "query"]
    /\ UNCHANGED <<tz, pool, tables>>

\* pool.connect() rejects (the store unreachable, or the wait timed out)
ConnectFail(c) ==
    /\ req[c].pc = "connect"
    /\ Catch(c, "connect failed", TRUE)
    /\ UNCHANGED <<tz, pool, pools, tables>>

\* StatementFail with the handler sending the statement again
StatementFailRetry(c) ==
    /\ req[c].pc = "query" /\ ~NoStatement(c)
    /\ req' = [req EXCEPT ![c].sent = @ + 1]
    /\ UNCHANGED <<tz, pool, pools, tables>>

\* a statement fails in the store without effect (connection lost)
StatementFail(c) ==
    /\ req[c].pc = "query" /\ ~NoStatement(c)
    /\ Leaks < MaxLeaks
    /\ Catch(c, "statement failed", TRUE)
    /\ UNCHANGED <<tz, pool, pools, tables>>

----------------------------------------------------------------------------
(* Events routes *)

\* app.get('/api/events') up to pool.connect()
GetEventsBegin(c, school) ==
    /\ Free(c)
    /\ IF pool = NoPool THEN Respond(c, "GET events", school, 500, "Database not connected")
       ELSE IF Falsy(school) THEN Respond(c, "GET events", school, 400, "School parameter is required")
       ELSE IF school \notin {"wlhs", "wvhs"} THEN Respond(c, "GET events", school, 400, "School must be wlhs or wvhs")
       ELSE AwaitConnect(c, "GET events", school, 0)
    /\ UNCHANGED <<tz, pool, pools, tables>>

\* app.get('/api/events') from the SELECT on
GetEventsExec(c) ==
    /\ req[c].pc = "query" /\ req[c].op = "GET events"
    /\ ReleaseRespond(c, 200, RowsOut(SelectEvents(events, req[c].arg)))
    /\ UNCHANGED <<tz, pool, tables>>

\* PostEventsBegin without the check of the school against wlhs and wvhs
PostEventsBeginAnySchool(c, body) ==
    /\ Free(c)
    /\ IF pool = NoPool THEN Respond(c, "POST events", body, 500, "Database not connected")
       ELSE IF Falsy(body.school) \/ body.date.kind = "absent" \/ Falsy(body.title)
       THEN Respond(c, "POST events", body, 400, "School, date, and title are required")
       ELSE IF formatDate(body.date).tag = "throw"
       THEN Respond(c, "POST events", body, 500, "Invalid date format")
       ELSE AwaitConnect(c, "POST events", body, formatDate(body.date).day)
    /\ UNCHANGED <<tz, pool, pools, tables>>

\* app.post('/api/events') up to pool.connect()
PostEventsBegin(c, body) ==
    /\ Free(c)
    /\ IF pool = NoPool THEN Respond(c, "POST events", body, 500, "Database not connected")
       ELSE IF Falsy(body.school) \/ body.date.kind = "absent" \/ Falsy(body.title)
       THEN Respond(c, "POST events", body, 400, "School, date, and title are required")
       ELSE IF body.school \notin {"wlhs", "wvhs"}
       THEN Respond(c, "POST events", body, 400, "School must be wlhs or wvhs")
       ELSE IF formatDate(body.date).tag = "throw"
       THEN Respond(c, "POST events", body, 500, "Invalid date format")
       ELSE AwaitConnect(c, "POST events", body, formatDate(body.date).day)
    /\ UNCHANGED <<tz, pool, pools, tables>>

\* app.post('/api/events') from the INSERT on
PostEventsExec(c) ==
    /\ req[c].pc = "query" /\ req[c].op = "POST events"
    /\ eventSeq < MaxId /\ now < MaxClock
    /\ LET b == req[c].arg
           row == InsertEvent(eventSeq + 1, b.school, req[c].fd, b.title,
                              OrElse(b.department, Null), OrElse(b.time, Null),
                              OrElse(b.description, ""), now + 1)
       IN  /\ events' = events \cup {row}
           /\ eventSeq' = eventSeq + 1
           /\ now' = now + 1
           /\ ReleaseRespond(c, 201, RowOut(row))
    /\ UNCHANGED <<tz, pool, materials, day_schedules, day_types, date_configs, materialSeq>>

\* app.put('/api/events/:id') up to pool.connect()
PutEventsBegin(c, id, body) ==
    /\ Free(c)
    /\ LET arg == [id |-> id, body |-> body]
       IN  IF pool = NoPool THEN Respond(c, "PUT events", arg, 500, "Database not connected")
           ELSE IF Falsy(body.title) THEN Respond(c, "PUT events", arg, 400, "Title is required")
           ELSE AwaitConnect(c, "PUT events", arg, 0)
    /\ UNCHANGED <<tz, pool, pools, tables>>

\* app.put('/api/events/:id') from the UPDATE on
PutEventsExec(c) ==
    /\ req[c].pc = "query" /\ req[c].op = "PUT events"
    /\ LET b == req[c].arg.body
           id == PgInteger(req[c].arg.id)
       IN  IF ~id.ok
           THEN /\ Leaks < MaxLeaks
                /\ Catch(c, "invalid input syntax for type integer", FALSE)
                /\ UNCHANGED <<pools, tables>>
           ELSE IF \E r \in events : r.id = id.v
           THEN /\ now < MaxClock
                /\ events' = UpdateEvents(events, id.v, b.title, OrElse(b.department, Null),
                                          OrElse(b.time, Null), OrElse(b.description, ""), now + 1)
                /\ now' = now + 1
                /\ ReleaseRespond(c, 200, RowOut(CHOOSE r \in events' : r.id = id.v))
                /\ UNCHANGED <<materials, day_schedules, day_types, date_configs, eventSeq, materialSeq>>
           ELSE /\ ReleaseRespond(c, 404, "Event not found")
                /\ UNCHANGED tables
    /\ UNCHANGED <<tz, pool>>

\* app.delete('/api/events/:id') up to pool.connect()
DeleteEventsBegin(c, id) ==
    /\ Free(c)
    /\ IF pool = NoPool THEN Respond(c, "DELETE events", id, 500, "Database not connected")
       ELSE AwaitConnect(c, "DELETE events", id, 0)
    /\ UNCHANGED <<tz, pool, pools, tables>>

\* app.delete('/api/events/:id') from the DELETE on
DeleteEventsExec(c) ==
    /\ req[c].pc = "query" /\ req[c].op = "DELETE events"
    /\ LET id == PgInteger(req[c].arg)
       IN  IF ~id.ok
           THEN /\ Leaks < MaxLeaks
                /\ Catch(c, "invalid input syntax for type integer", FALSE)
                /\ UNCHANGED <<pools, tables>>
           ELSE /\ events' = DeleteById(events, id.v)
                /\ IF \E r \in events : r.id = id.v
                   THEN ReleaseRespond(c, 200, id.v)
                   ELSE ReleaseRespond(c, 404, "Event not found")
                /\ UNCHANGED <<materials, day_schedules, day_types, date_configs, eventSeq, materialSeq, now>>
    /\ UNCHANGED <<tz, pool>>

----------------------------------------------------------------------------
(* Materials routes *)

\* app.get('/api/materials') up to pool.connect()
GetMaterialsBegin(c, query) ==
    /\ Free(c)
    /\ IF pool = NoPool THEN Respond(c, "GET materials", query, 500, "Database not connected")
       ELSE IF Falsy(query.school)
       THEN Respond(c, "GET materials", query, 400, "School parameter is required")
       ELSE IF query.school \notin {"wlhs", "wvhs"}
       THEN Respond(c, "GET materials", query, 400, "School must be wlhs or wvhs")
       ELSE AwaitConnect(c, "GET materials", query, 0)
    /\ UNCHANGED <<tz, pool, pools, tables>>

\* app.get('/api/materials') after pool.connect(): the grade check, which
\* releases the client and answers 400 without a statement
GetMaterialsGrade(c) ==
    /\ req[c].pc = "query" /\ req[c].op = "GET materials"
    /\ ~Falsy(req[c].arg.grade)
    /\ parseInt(req[c].arg.grade) \notin {9, 10, 11, 12}
    /\ ReleaseRespond(c, 400, "Grade must be 9, 10, 11, or 12")
    /\ UNCHANGED <<tz, pool, tables>>

\* app.get('/api/materials') from the SELECT on
GetMaterialsExec(c) ==
    /\ req[c].pc = "query" /\ req[c].op = "GET materials"
    /\ Falsy(req[c].arg.grade) \/ parseInt(req[c].arg.grade) \in {9, 10, 11, 12}
    /\ ReleaseRespond(c, 200,
           RowsOut(SelectMaterials(materials, req[c].arg.school, req[c].arg.grade)))
    /\ UNCHANGED <<tz, pool, tables>>

\* PostMaterialsBegin with the grade_level checked before the school
PostMaterialsBeginGradeFirst(c, body) ==
    /\ Free(c)
    /\ IF pool = NoPool THEN Respond(c, "POST materials", body, 500, "Database not connected")
       ELSE IF \/ Falsy(body.school) \/ body.date.kind = "absent" \/ Falsy(body.grade_level)
               \/ Falsy(body.title) \/ Falsy(body.link)
       THEN Respond(c, "POST materials", body, 400,
                    "School, date, grade_level, title, and link are required")
       ELSE IF parseInt(body.grade_level) \notin {9, 10, 11, 12}
       THEN Respond(c, "POST materials", body, 400, "Grade level must be 9, 10, 11, or 12")
       ELSE IF body.school \notin {"wlhs", "wvhs"}
       THEN Respond(c, "POST materials", body, 400, "School must be wlhs or wvhs")
       ELSE IF formatDate(body.date).tag = "throw"
       THEN Respond(c, "POST materials", body, 500, "Invalid date format")
       ELSE AwaitConnect(c, "POST materials", body, formatDate(body.date).day)
    /\ UNCHANGED <<tz, pool, pools, tables>>

\* app.post('/api/materials') up to pool.connect()
PostMaterialsBegin(c, body) ==
    /\ Free(c)
    /\ IF pool = NoPool THEN Respond(c, "POST materials", body, 500, "Database not connected")
       ELSE IF \/ Falsy(body.school) \/ body.date.kind = "absent" \/ Falsy(body.grade_level)
               \/ Falsy(body.title) \/ Falsy(body.link)
       THEN Respond(c, "POST materials", body, 400,
                    "School, date, grade_level, title, and link are required")
       ELSE IF body.school \notin {"wlhs", "wvhs"}
       THEN Respond(c, "POST materials", body, 400, "School must be wlhs or wvhs")
       ELSE IF parseInt(body.grade_level) \notin {9, 10, 11, 12}
       THEN Respond(c, "POST materials", body, 400, "Grade level must be 9, 10, 11, or 12")
       ELSE IF formatDate(body.date).tag = "throw"
       THEN Respond(c, "POST materials", body, 500, "Invalid date format")
       ELSE AwaitConnect(c, "POST materials", body, formatDate(body.date).day)
    /\ UNCHANGED <<tz, pool, pools, tables>>

\* app.post('/api/materials') from the INSERT on
PostMaterialsExec(c) ==
    /\ req[c].pc = "query" /\ req[c].op = "POST materials"
    /\ materialSeq < MaxId /\ now < MaxClock
    /\ LET b == req[c].arg
           row == InsertMaterial(materialSeq + 1, b.school, req[c].fd,
                                 parseInt(b.grade_level), b.title, b.link,
                                 OrElse(b.description, ""), OrElse(b.password, ""), now + 1)
       IN  /\ materials' = materials \cup {row}
           /\ materialSeq' = materialSeq + 1
           /\ now' = now + 1
           /\ ReleaseRespond(c, 201, RowOut(row))
    /\ UNCHANGED <<tz, pool, events, day_schedules, day_types, date_configs, eventSeq>>

\* app.put('/api/materials/:id') up to pool.connect()
PutMaterialsBegin(c, id, body) ==
    /\ Free(c)
    /\ LET arg == [id |-> id, body |-> body]
       IN  IF pool = NoPool THEN Respond(c, "PUT materials", arg, 500, "Database not connected")
           ELSE IF Falsy(body.title) \/ Falsy(body.link)
           THEN Respond(c, "PUT materials", arg, 400, "Title and link are required")
           ELSE AwaitConnect(c, "PUT materials", arg, 0)
    /\ UNCHANGED <<tz, pool, pools, tables>>

\* app.put('/api/materials/:id') from the UPDATE on
PutMaterialsExec(c) ==
    /\ req[c].pc = "query" /\ req[c].op = "PUT materials"
    /\ LET b == req[c].arg.body
           id == PgInteger(req[c].arg.id)
       IN  IF ~id.ok
           THEN /\ Leaks < MaxLeaks
                /\ Catch(c, "invalid input syntax for type integer", FALSE)
                /\ UNCHANGED <<pools, tables>>
           ELSE IF \E r \in materials : r.id = id.v
           THEN /\ now < MaxClock
                /\ materials' = UpdateMaterials(materials, id.v, b.title, b.link,
                                    OrElse(b.description, ""), OrElse(b.password, ""), now + 1)
                /\ now' = now + 1
                /\ ReleaseRespond(c, 200, RowOut(CHOOSE r \in materials' : r.id = id.v))
                /\ UNCHANGED <<events, day_schedules, day_types, date_configs, eventSeq, materialSeq>>
           ELSE /\ ReleaseRespond(c, 404, "Material not found")
                /\ UNCHANGED tables
    /\ UNCHANGED <<tz, pool>>

\* app.delete('/api/materials/:id') up to pool.connect()
DeleteMaterialsBegin(c, id) ==
    /\ Free(c)
    /\ IF pool = NoPool THEN Respond(c, "DELETE materials", id, 500, "Database not connected")
       ELSE AwaitConnect(c, "DELETE materials", id, 0)
    /\ UNCHANGED <<tz, pool, pools, tables>>

\* app.delete('/api/materials/:id') from the DELETE on
DeleteMaterialsExec(c) ==
    /\ req[c].pc = "query" /\ req[c].op = "DELETE materials"
    /\ LET id == PgInteger(req[c].arg)
       IN  IF ~id.ok
           THEN /\ Leaks < MaxLeaks
                /\ Catch(c, "invalid input syntax for type integer", FALSE)
                /\ UNCHANGED <<pools, tables>>
           ELSE /\ materials' = DeleteById(materials, id.v)
                /\ IF \E r \in materials : r.id = id.v
                   THEN ReleaseRespond(c, 200, id.v)
                   ELSE ReleaseRespond(c, 404, "Material not found")
                /\ UNCHANGED <<events, day_schedules, day_types, date_configs, eventSeq, materialSeq, now>>
    /\ UNCHANGED <<tz, pool>>

----------------------------------------------------------------------------
(* Day schedules and day types routes *)

\* app.get('/api/day-schedules') up to pool.connect()
GetDaySchedulesBegin(c) ==
    /\ Free(c)
    /\ IF pool = NoPool THEN Respond(c, "GET day-schedules", Null, 500, "Database not connected")
       ELSE AwaitConnect(c, "GET day-schedules", Null, 0)
    /\ UNCHANGED <<tz, pool, pools, tables>>

\* app.get('/api/day-schedules') from the SELECT on
GetDaySchedulesExec(c) ==
    /\ req[c].pc = "query" /\ req[c].op = "GET day-schedules"
    /\ ReleaseRespond(c, 200, DaysOut(SortByDate(day_schedules)))
    /\ UNCHANGED <<tz, pool, tables>>

\* app.post('/api/day-schedules') up to pool.connect()
PostDaySchedulesBegin(c, body) ==
    /\ Free(c)
    /\ IF pool = NoPool THEN Respond(c, "POST day-schedules", body, 500, "Database not connected")
       ELSE IF body.date.kind = "absent"
       THEN Respond(c, "POST day-schedules", body, 400, "Date is required")
       ELSE IF formatDate(body.date).tag = "throw"
       THEN Respond(c, "POST day-schedules", body, 500, "Invalid date format")
       ELSE AwaitConnect(c, "POST day-schedules", body, formatDate(body.date).day)
    /\ UNCHANGED <<tz, pool, pools, tables>>

\* app.post('/api/day-schedules') after pool.connect(), no schedule: the DELETE
PostDaySchedulesDelete(c) ==
    /\ req[c].pc = "query" /\ req[c].op = "POST day-schedules"
    /\ Falsy(req[c].arg.value)
    /\ day_schedules' = DeleteByDate(day_schedules, req[c].fd)
    /\ ReleaseRespond(c, 200, [date |-> req[c].fd, value |-> Null])
    /\ UNCHANGED <<tz, pool, events, materials, day_types, date_configs, eventSeq, materialSeq, now>>

\* PostDaySchedulesInvalid without its client.release()
PostDaySchedulesInvalidHold(c) ==
    /\ req[c].pc = "query" /\ req[c].op = "POST day-schedules"
    /\ ~Falsy(req[c].arg.value) /\ req[c].arg.value \notin {"A", "B"}
    /\ req' = [req EXCEPT ![c].pc = "done", ![c].status = 400,
                          ![c].result = "Schedule must be A or B"]
    /\ UNCHANGED <<tz, pool, pools, tables>>

\* app.post('/api/day-schedules') after pool.connect(): a schedule that is
\* not A or B releases the client and answers 400 without a statement
PostDaySchedulesInvalid(c) ==
    /\ req[c].pc = "query" /\ req[c].op = "POST day-schedules"
    /\ ~Falsy(req[c].arg.value) /\ req[c].arg.value \notin {"A", "B"}
    /\ ReleaseRespond(c, 400, "Schedule must be A or B")
    /\ UNCHANGED <<tz, pool, tables>>

\* app.post('/api/day-schedules') after pool.connect(), schedule A or B: the upsert
PostDaySchedulesUpsert(c) ==
    /\ req[c].pc = "query" /\ req[c].op = "POST day-schedules"
    /\ req[c].arg.value \in {"A", "B"}
    /\ now < MaxClock
    /\ day_schedules' = UpsertByDate(day_schedules, req[c].fd, req[c].arg.value, now + 1)
    /\ now' = now + 1
    /\ ReleaseRespond(c, 200, [date |-> req[c].fd, value |-> req[c].arg.value])
    /\ UNCHANGED <<tz, pool, events, materials, day_types, date_configs, eventSeq, materialSeq>>

\* app.get('/api/day-types') up to pool.connect()
GetDayTypesBegin(c) ==
    /\ Free(c)
    /\ IF pool = NoPool THEN Respond(c, "GET day-types", Null, 500, "Database not connected")
       ELSE AwaitConnect(c, "GET day-types", Null, 0)
    /\ UNCHANGED <<tz, pool, pools, tables>>

\* app.get('/api/day-types') from the SELECT on
GetDayTypesExec(c) ==
    /\ req[c].pc = "query" /\ req[c].op = "GET day-types"
    /\ ReleaseRespond(c, 200, DaysOut(SortByDate(day_types)))
    /\ UNCHANGED <<tz, pool, tables>>

\* app.post('/api/day-types') up to pool.connect()
PostDayTypesBegin(c, body) ==
    /\ Free(c)
    /\ IF pool = NoPool THEN Respond(c, "POST day-types", body, 500, "Database not connected")
       ELSE IF body.date.kind = "absent"
       THEN Respond(c, "POST day-types", body, 400, "Date is required")
       ELSE IF formatDate(body.date).tag = "throw"
       THEN Respond(c, "POST day-types", body, 500, "Invalid date format")
       ELSE AwaitConnect(c, "POST day-types", body, formatDate(body.date).day)
    /\ UNCHANGED <<tz, pool, pools, tables>>

\* app.post('/api/day-types') after pool.connect(), no type: the DELETE
PostDayTypesDelete(c) ==
    /\ req[c].pc = "query" /\ req[c].op = "POST day-types"
    /\ Falsy(req[c].arg.value)
    /\ day_types' = DeleteByDate(day_types, req[c].fd)
    /\ ReleaseRespond(c, 200, [date |-> req[c].fd, value |-> Null])
    /\ UNCHANGED <<tz, pool, events, materials, day_schedules, date_configs, eventSeq, materialSeq, now>>

\* app.post('/api/day-types') after pool.connect(), a type: the upsert
PostDayTypesUpsert(c) ==
    /\ req[c].pc = "query" /\ req[c].op = "POST day-types"
    /\ ~Falsy(req[c].arg.value)
    /\ now < MaxClock
    /\ day_types' = UpsertByDate(day_types, req[c].fd, req[c].arg.value, now + 1)
    /\ now' = now + 1
    /\ ReleaseRespond(c, 200, [date |-> req[c].fd, value |-> req[c].arg.value])
    /\ UNCHANGED <<tz, pool, events, materials, day_schedules, date_configs, eventSeq, materialSeq>>

----------------------------------------------------------------------------
(* Administration routes *)

\* app.get('/api/health') up to pool.connect()
HealthBegin(c) ==
    /\ Free(c)
    /\ IF pool = NoPool THEN Respond(c, "GET health", Null, 500, "Database not configured")
       ELSE AwaitConnect(c, "GET health", Null, 0)
    /\ UNCHANGED <<tz, pool, pools, tables>>

\* app.get('/api/health'): SELECT NOW(), version()
HealthNow(c) ==
    /\ req[c].pc = "query" /\ req[c].op = "GET health" /\ req[c].sent = 0
    /\ req' = [req EXCEPT ![c].sent = 1]
    /\ UNCHANGED <<tz, pool, pools, tables>>

\* app.get('/api/health'): the table check, client.release() and the answer
HealthTables(c) ==
    /\ req[c].pc = "query" /\ req[c].op = "GET health" /\ req[c].sent = 1
    /\ ReleaseRespond(c, 200, "healthy")
    /\ UNCHANGED <<tz, pool, tables>>

\* new Pool({...}) in initializePool
NewPool == [out |-> 0, ended |-> FALSE, ends |-> 0]

\* pool.end() resolves once the pool has no client left: none checked out and
\* none being connected
Drained(p) ==
    /\ pools[p].out = 0
    /\ \A c \in Clients : ~(req[c].pc = "connect" /\ req[c].p = p)

\* the handler of POST /api/init awaits pool.connect() of the pool it made
InitConnect(c, url) ==
    [op |-> "POST init", pc |-> "connect", p |-> Len(pools) + 1, arg |-> url, fd |-> 0,
     status |-> 0, result |-> << >>, faulted |-> FALSE, sent |-> 0]

\* app.post('/api/init') up to its first await that waits: pool.end() of the
\* current pool, which rejects when called again, resolves at once on a
\* drained pool and otherwise waits; then pool = initializePool(dbUrl)
InitBegin(c, url) ==
    /\ Free(c)
    /\ Len(pools) < MaxPools
    /\ IF pool = NoPool THEN TRUE ELSE pools[pool].ends < MaxEnds
    /\ IF Falsy(url)
       THEN /\ Respond(c, "POST init", url, 400, "Database URL is required")
            /\ UNCHANGED <<pool, pools>>
       ELSE IF pool = NoPool
       THEN /\ pools' = Append(pools, NewPool)
            /\ pool' = Len(pools) + 1
            /\ req' = [req EXCEPT ![c] = InitConnect(c, url)]
       ELSE IF pools[pool].ended
       THEN /\ pools' = [pools EXCEPT ![pool].ends = @ + 1]
            /\ Respond(c, "POST init", url, 500, "Called end on pool more than once")
            /\ UNCHANGED pool
       ELSE IF Drained(pool)
       THEN /\ pools' = Append([pools EXCEPT ![pool].ended = TRUE, ![pool].ends = @ + 1],
                               NewPool)
            /\ pool' = Len(pools) + 1
            /\ req' = [req EXCEPT ![c] = InitConnect(c, url)]
       ELSE /\ pools' = [pools EXCEPT ![pool].ended = TRUE, ![pool].ends = @ + 1]
            /\ req' = [req EXCEPT ![c] = [InitConnect(c, url) EXCEPT !.pc = "ending",
                                                                     !.p = pool]]
            /\ UNCHANGED pool
    /\ UNCHANGED <<tz, tables>>

\* app.post('/api/init'): `await pool.end()` resolves, the pool drained;
\* pool = initializePool(dbUrl), up to pool.connect()
InitEnded(c) ==
    /\ req[c].pc = "ending" /\ Drained(req[c].p)
    /\ pools' = Append(pools, NewPool)
    /\ pool' = Len(pools) + 1
    /\ req' = [req EXCEPT ![c] = InitConnect(c, req[c].arg)]
    /\ UNCHANGED <<tz, tables>>

\* app.post('/api/init') from the first CREATE TABLE IF NOT EXISTS on: the
\* schema statements, which change no row, client.release() and the answer
InitExec(c) ==
    /\ req[c].pc = "query" /\ req[c].op = "POST init"
    /\ ReleaseRespond(c, 200, "Database initialized successfully")
    /\ UNCHANGED <<tz, pool, tables>>

\* the rows counted and the rows removed, per table
NoCounts == [events |-> 0, materials |-> 0, daySchedules |-> 0, dayTypes |-> 0]

\* app.delete('/api/admin/clear-all') up to pool.connect()
ClearAllBegin(c) ==
    /\ Free(c)
    /\ IF pool = NoPool
       THEN Respond(c, "DELETE clear-all", Null, 500, "Database not connected")
       ELSE AwaitConnect(c, "DELETE clear-all", Null, 0)
    /\ UNCHANGED <<tz, pool, pools, tables>>

\* app.delete('/api/admin/clear-all'): one of the four SELECT COUNT(*), each a
\* statement of its own, in the order events, materials, day_schedules,
\* day_types. `cleared` is what the answer will report; `removed` is the
\* rowCount of the DELETEs, which the handler does not read.
ClearAllCount(c) ==
    /\ req[c].pc = "query" /\ req[c].op = "DELETE clear-all" /\ req[c].sent \in 0..3
    /\ LET r == IF req[c].sent = 0 THEN [cleared |-> NoCounts, removed |-> NoCounts]
                ELSE req[c].result
       IN  req' = [req EXCEPT
                ![c].sent = @ + 1,
                ![c].result =
                    IF req[c].sent = 0 THEN [r EXCEPT !.cleared.events = Cardinality(events)]
                    ELSE IF req[c].sent = 1
                    THEN [r EXCEPT !.cleared.materials = Cardinality(materials)]
                    ELSE IF req[c].sent = 2
                    THEN [r EXCEPT !.cleared.daySchedules = Cardinality(day_schedules)]
                    ELSE [r EXCEPT !.cleared.dayTypes = Cardinality(day_types)]]
    /\ UNCHANGED <<tz, pool, pools, tables>>

\* app.delete('/api/admin/clear-all'): one of the four DELETE FROM, each a
\* statement of its own, in the order materials, events, day_schedules,
\* day_types; after the last, client.release() and the answer
ClearAllDelete(c) ==
    /\ req[c].pc = "query" /\ req[c].op = "DELETE clear-all" /\ req[c].sent \in 4..7
    /\ materials' = IF req[c].sent = 4 THEN {} ELSE materials
    /\ events' = IF req[c].sent = 5 THEN {} ELSE events
    /\ day_schedules' = IF req[c].sent = 6 THEN {} ELSE day_schedules
    /\ day_types' = IF req[c].sent = 7 THEN {} ELSE day_types
    /\ LET r == req[c].result
           after ==
               IF req[c].sent = 4 THEN [r EXCEPT !.removed.materials = Cardinality(materials)]
               ELSE IF req[c].sent = 5
               THEN [r EXCEPT !.removed.events = Cardinality(events)]
               ELSE IF req[c].sent = 6
               THEN [r EXCEPT !.removed.daySchedules = Cardinality(day_schedules)]
               ELSE [r EXCEPT !.removed.dayTypes = Cardinality(day_types)]
       IN  IF req[c].sent = 7
           THEN ReleaseRespond(c, 200, after)
           ELSE /\ req' = [req EXCEPT ![c].sent = @ + 1, ![c].result = after]
                /\ UNCHANGED pools
    /\ UNCHANGED <<tz, pool, date_configs, eventSeq, materialSeq, now>>

----------------------------------------------------------------------------
(* DateConfig: the coalesce-merge upsert, as the specification words it *)

\* a write of a DateConfig: each of color, day_type, is_access given or not
ConfigWrites ==
    [color : {Null, "#fff"}, day_type : {Null, "A", "B"}, is_access : {Null, "true", "false"}]

\* the date keys written
ConfigKeys == {10, 12}

\* the write that replaces the row, omitted fields at their defaults
ReplaceUpsert(rows, key, w) ==
    {r \in rows : r.date # key} \cup
        {[date |-> key, color |-> w.color, day_type |-> w.day_type,
          is_access |-> IF w.is_access = Null THEN "false" ELSE w.is_access]}

\* one conditional write: the first write of a key inserts each field given,
\* or else its default (null, false); on conflict each field given overwrites
\* and each field omitted retains the stored value
CoalesceMergeUpsert(rows, key, w) ==
    IF \E r \in rows : r.date = key
    THEN { IF r.date = key
           THEN [date |-> key,
                 color |-> IF w.color # Null THEN w.color ELSE r.color,
                 day_type |-> IF w.day_type # Null THEN w.day_type ELSE r.day_type,
                 is_access |-> IF w.is_access # Null THEN w.is_access ELSE r.is_access]
           ELSE r : r \in rows }
    ELSE rows \cup {[date |-> key, color |-> w.color, day_type |-> w.day_type,
                     is_access |-> IF w.is_access = Null THEN "false" ELSE w.is_access]}

\* a write of a DateConfig and its answer, the row as stored
WriteDateConfig(c, key, w) ==
    /\ Free(c)
    /\ date_configs' = CoalesceMergeUpsert(date_configs, key, w)
    /\ Respond(c, "WRITE date-config", [date |-> key, write |-> w], 200,
               CHOOSE r \in date_configs' : r.date = key)
    /\ UNCHANGED <<tz, pool, pools, events, materials, day_schedules, day_types,
                   eventSeq, materialSeq, now>>

----------------------------------------------------------------------------

\* the state after the module is loaded: DATABASE_URL set (a pool) or not
Init ==
    /\ tz \in TZOffsets
    /\ \/ pool = NoPool /\ pools = << >>
       \/ pool = 1 /\ pools = <<[out |-> 0, ended |-> FALSE, ends |-> 0]>>
    /\ events = {} /\ materials = {} /\ day_schedules = {} /\ day_types = {}
    /\ date_configs = {}
    /\ eventSeq = 0 /\ materialSeq = 0 /\ now = 0
    /\ req = [c \in Clients |-> Idle]

(* The complete system: every client may send any request at any time. *)

EventsNext(c) ==
    \/ \E school \in SchoolInputs : GetEventsBegin(c, school)
    \/ GetEventsExec(c)
    \/ \E body \in EventBodies : PostEventsBegin(c, body)
    \/ PostEventsExec(c)
    \/ \E id \in IdInputs, body \in EventUpdates : PutEventsBegin(c, id, body)
    \/ PutEventsExec(c)
    \/ \E id \in IdInputs : DeleteEventsBegin(c, id)
    \/ DeleteEventsExec(c)

MaterialsNext(c) ==
    \/ \E query \in MaterialQueries : GetMaterialsBegin(c, query)
    \/ GetMaterialsGrade(c)
    \/ GetMaterialsExec(c)
    \/ \E body \in MaterialBodies : PostMaterialsBegin(c, body)
    \/ PostMaterialsExec(c)
    \/ \E id \in IdInputs, body \in MaterialUpdates : PutMaterialsBegin(c, id, body)
    \/ PutMaterialsExec(c)
    \/ \E id \in IdInputs : DeleteMaterialsBegin(c, id)
    \/ DeleteMaterialsExec(c)

DaySchedulesNext(c) ==
    \/ GetDaySchedulesBegin(c)
    \/ GetDaySchedulesExec(c)
    \/ \E body \in DayBodies(ScheduleInputs) : PostDaySchedulesBegin(c, body)
    \/ PostDaySchedulesDelete(c)
    \/ PostDaySchedulesInvalid(c)
    \/ PostDaySchedulesUpsert(c)

DayTypesNext(c) ==
    \/ GetDayTypesBegin(c)
    \/ GetDayTypesExec(c)
    \/ \E body \in DayBodies(TypeInputs) : PostDayTypesBegin(c, body)
    \/ PostDayTypesDelete(c)
    \/ PostDayTypesUpsert(c)

AdminNext(c) ==
    \/ HealthBegin(c) \/ HealthNow(c) \/ HealthTables(c)
    \/ \E url \in {Null, "url"} : InitBegin(c, url)
    \/ InitEnded(c) \/ InitExec(c)
    \/ ClearAllBegin(c) \/ ClearAllCount(c) \/ ClearAllDelete(c)

PoolNext(c) ==
    \/ Connect(c)
    \/ ConnectFail(c)
    \/ StatementFail(c)
    \/ Close(c)

Next ==
    \E c \in Clients :
        \/ EventsNext(c) \/ MaterialsNext(c)
        \/ DaySchedulesNext(c) \/ DayTypesNext(c)
        \/ AdminNext(c)
        \/ \E key \in ConfigKeys, w \in ConfigWrites : WriteDateConfig(c, key, w)
        \/ PoolNext(c)

Spec == Init /\ [][Next]_vars

----------------------------------------------------------------------------
(* Workloads.  The state space of Spec is too large to enumerate; each      *)
(* specification below is Spec with the requests restricted to the routes   *)
(* and the inputs its properties are about.  One client sends its requests  *)
(* one after the other, and a run works on one of events and materials:     *)
(* their routes share no table.                                             *)

ValidSchools == {"wlhs", "wvhs"}

ValidDates == {d \in DateInputs : d.kind \in {"date", "local"}}

\* creating and listing: every valid school and date, both grades
ListEventBodies ==
    {b \in EventBodies : b.school \in ValidSchools /\ b.date \in ValidDates /\ b.title = "t1"}

ListMaterialBodies ==
    {b \in MaterialBodies : /\ b.school \in ValidSchools /\ b.date \in ValidDates
                            /\ b.grade_level \in {"9", "12"}
                            /\ b.title = "t1" /\ b.link = "l1"}

NextList ==
    \/ /\ materialSeq = 0
       /\ \/ \E body \in ListEventBodies : PostEventsBegin("c1", body)
          \/ PostEventsExec("c1")
          \/ \E school \in ValidSchools : GetEventsBegin("c1", school)
          \/ GetEventsExec("c1")
    \/ /\ eventSeq = 0
       /\ \/ \E body \in ListMaterialBodies : PostMaterialsBegin("c1", body)
          \/ PostMaterialsExec("c1")
          \/ \E query \in MaterialQueries : GetMaterialsBegin("c1", query)
          \/ GetMaterialsGrade("c1")
          \/ GetMaterialsExec("c1")
    \/ Connect("c1")
    \/ ConnectFail("c1")
    \/ Close("c1")

SpecList == Init /\ [][NextList]_vars

\* updating and deleting: one school, one date, every id and update body
CrudEventBodies ==
    {b \in EventBodies : b.school = "wlhs" /\ b.date.kind = "date" /\ b.title = "t1"}

CrudMaterialBodies ==
    {b \in MaterialBodies : /\ b.school = "wlhs" /\ b.date.kind = "date"
                            /\ b.grade_level = "9" /\ b.title = "t1" /\ b.link = "l1"}

NextCrud ==
    \/ /\ materialSeq = 0
       /\ \/ \E body \in CrudEventBodies : PostEventsBegin("c1", body)
          \/ PostEventsExec("c1")
          \/ \E id \in IdInputs, body \in EventUpdates : PutEventsBegin("c1", id, body)
          \/ PutEventsExec("c1")
          \/ \E id \in IdInputs : DeleteEventsBegin("c1", id)
          \/ DeleteEventsExec("c1")
    \/ /\ eventSeq = 0
       /\ \/ \E body \in CrudMaterialBodies : PostMaterialsBegin("c1", body)
          \/ PostMaterialsExec("c1")
          \/ \E id \in IdInputs, body \in MaterialUpdates : PutMaterialsBegin("c1", id, body)
          \/ PutMaterialsExec("c1")
          \/ \E id \in IdInputs : DeleteMaterialsBegin("c1", id)
          \/ DeleteMaterialsExec("c1")
    \/ Connect("c1")
    \/ ConnectFail("c1")
    \/ StatementFail("c1")
    \/ Close("c1")

SpecCrud == Init /\ [][NextCrud]_vars

\* validating: every school, date, grade, title and link, valid or not, with
\* the optional fields absent, and every query
ValidateEventBodies ==
    {b \in EventBodies : b.department = Null /\ b.time = Null /\ b.description = Null}

ValidateMaterialBodies ==
    {b \in MaterialBodies : b.description = Null /\ b.password = Null}

NextValidate ==
    \/ /\ materialSeq = 0
       /\ \/ \E body \in ValidateEventBodies : PostEventsBegin("c1", body)
          \/ PostEventsExec("c1")
          \/ \E school \in SchoolInputs : GetEventsBegin("c1", school)
          \/ GetEventsExec("c1")
    \/ /\ eventSeq = 0
       /\ \/ \E body \in ValidateMaterialBodies : PostMaterialsBegin("c1", body)
          \/ PostMaterialsExec("c1")
          \/ \E query \in MaterialQueries : GetMaterialsBegin("c1", query)
          \/ GetMaterialsGrade("c1")
          \/ GetMaterialsExec("c1")
    \/ Connect("c1")
    \/ ConnectFail("c1")
    \/ Close("c1")

SpecValidate == Init /\ [][NextValidate]_vars

\* the day routes: two clients; the second writes the first valid date only.
\* A run works on one of day_schedules and day_types.
DayContended == {b \in DayBodies(ScheduleInputs \cup TypeInputs) : b.date.kind = "date"}

NextDay ==
    \/ /\ day_types = {}
       /\ \/ \E body \in DayBodies(ScheduleInputs) : PostDaySchedulesBegin("c1", body)
          \/ \E body \in DayBodies(ScheduleInputs) \cap DayContended : PostDaySchedulesBegin("c2", body)
          \/ \E c \in Clients : PostDaySchedulesDelete(c)
          \/ \E c \in Clients : PostDaySchedulesInvalid(c)
          \/ \E c \in Clients : PostDaySchedulesUpsert(c)
    \/ /\ day_schedules = {}
       /\ \/ \E body \in DayBodies(TypeInputs) : PostDayTypesBegin("c1", body)
          \/ \E body \in DayBodies(TypeInputs) \cap DayContended : PostDayTypesBegin("c2", body)
          \/ \E c \in Clients : PostDayTypesDelete(c)
          \/ \E c \in Clients : PostDayTypesUpsert(c)
    \/ \E c \in Clients : Connect(c)
    \/ \E c \in Clients : ConnectFail(c)
    \/ \E c \in Clients : StatementFail(c)
    \/ \E c \in Clients : Close(c)

\* the day routes send back the date they were given, and none reads a row
\* here: the time zone is left at UTC
InitUTC == Init /\ tz = 0

SpecDay == InitUTC /\ [][NextDay]_vars

\* the DateConfig writes of one client
NextConfig ==
    \/ \E key \in ConfigKeys, w \in ConfigWrites : WriteDateConfig("c1", key, w)
    \/ Close("c1")

SpecConfig == InitUTC /\ [][NextConfig]_vars

\* clearing while schedules are written: the first client writes and clears,
\* the second writes the first valid date
ClearBodies == {b \in DayBodies({"A", "B"}) : b.date \in ValidDates /\ b.value = "A"}

NextClear ==
    \/ \E body \in ClearBodies : PostDaySchedulesBegin("c1", body)
    \/ \E body \in DayBodies({"A", "B"}) \cap DayContended : PostDaySchedulesBegin("c2", body)
    \/ \E c \in {"c1", "c2"} : PostDaySchedulesUpsert(c)
    \/ ClearAllBegin("c1")
    \/ ClearAllCount("c1")
    \/ ClearAllDelete("c1")
    \/ \E c \in {"c1", "c2"} : Connect(c)
    \/ \E c \in {"c1", "c2"} : ConnectFail(c)
    \/ \E c \in {"c1", "c2"} : StatementFail(c)
    \/ \E c \in {"c1", "c2"} : Close(c)

SpecClear == InitUTC /\ [][NextClear]_vars

\* re-initializing while requests run: the first client re-initializes, the
\* second lists and checks health, the third does either
NextInit ==
    \/ \E url \in (IF pool = NoPool THEN {Null, "url"} ELSE {"url"}) : InitBegin("c1", url)
    \/ InitBegin("c3", "url")
    \/ \E c \in {"c1", "c3"} : InitEnded(c)
    \/ \E c \in {"c1", "c3"} : InitExec(c)
    \/ \E c \in {"c2", "c3"} : GetEventsBegin(c, "wlhs")
    \/ \E c \in {"c2", "c3"} : GetEventsExec(c)
    \/ HealthBegin("c2")
    \/ HealthNow("c2")
    \/ HealthTables("c2")
    \/ \E c \in Clients : Connect(c)
    \/ \E c \in Clients : ConnectFail(c)
    \/ \E c \in Clients : StatementFail(c)
    \/ \E c \in Clients : Close(c)

\* the event loop runs every continuation that is ready: a pending
\* pool.connect() resolves or, after connectionTimeoutMillis, rejects; the
\* store answers every statement; pool.end() resolves once the pool is drained
Progress(c) ==
    \/ Connect(c) \/ ConnectFail(c)
    \/ GetEventsExec(c) \/ HealthNow(c) \/ HealthTables(c)
    \/ InitEnded(c) \/ InitExec(c)

SpecInit == InitUTC /\ [][NextInit]_vars /\ \A c \in Clients : WF_vars(Progress(c))

----------------------------------------------------------------------------
(* Properties *)

Done(c, op, status) == req[c].pc = "done" /\ req[c].op = op /\ req[c].status = status

\* the list GET /api/events?school= would send in this state
EventList(school) == RowsOut(SelectEvents(events, school))

\* the list GET /api/materials?school= would send in this state
MaterialList(school) == RowsOut(SelectMaterials(materials, school, Null))

\* a time comes before another: earlier, or given where the other is NULL
TimeLess(s, t) == s # Null /\ (t = Null \/ PgTime(s) < PgTime(t))

Quiet == \A c \in Clients : req[c].pc \in {"idle", "done"}

\* C1: every request that acquired a client from the pool has released it
\* when its response is sent, whatever the outcome: once no request is in
\* flight, no client is checked out.
C1_AllReleased == Quiet => \A p \in DOMAIN pools : pools[p].out = 0

\* the text of an id that is the id of no row of the table
NoRowHasId(rows, text) == \A r \in rows : ToString(r.id) # text

\* C2: PUT /api/events/:id and PUT /api/materials/:id with a valid payload
\* and an id that matches no stored row answer 404, for every id the route
\* can receive (here: with a pool configured and the store reachable).
C2_UpdateMissingIs404 ==
    \A c \in Clients :
        /\ req[c].pc = "done" /\ req[c].p # NoPool /\ ~req[c].faulted
        /\ \/ req[c].op = "PUT events" /\ ~Falsy(req[c].arg.body.title)
                /\ NoRowHasId(events, req[c].arg.id)
           \/ req[c].op = "PUT materials" /\ ~Falsy(req[c].arg.body.title)
                /\ ~Falsy(req[c].arg.body.link) /\ NoRowHasId(materials, req[c].arg.id)
        => req[c].status = 404

\* a create whose fields pass every check but the date, which is a non-empty
\* text that is no date
BadDateCreate(c) ==
    /\ req[c].pc = "done" /\ req[c].p # NoPool
    /\ \/ req[c].op = "POST events" /\ req[c].arg.school \in ValidSchools
            /\ ~Falsy(req[c].arg.title)
       \/ req[c].op = "POST materials" /\ req[c].arg.school \in ValidSchools
            /\ ~Falsy(req[c].arg.title) /\ ~Falsy(req[c].arg.link)
            /\ parseInt(req[c].arg.grade_level) \in {9, 10, 11, 12}
       \/ req[c].op \in {"POST day-schedules", "POST day-types"}
    /\ req[c].arg.date.kind = "bad"

\* C3: a create or upsert whose date is a non-empty text that is no date
\* fails with ValidationError("Invalid date format"), status 400.
C3_BadDateIs400 ==
    \A c \in Clients :
        BadDateCreate(c) => req[c].status = 400 /\ req[c].result = "Invalid date format"

\* a client receives the answer of its statement, the store reachable
Answered(c, op) ==
    /\ req[c].pc = "query" /\ req[c].op = op
    /\ req'[c].pc = "done" /\ ~req'[c].faulted

\* C4: a day-schedule or day-type write with no value succeeds (200, never
\* 404) whether or not the date has a row; afterwards the date has no row and
\* every other row is as it was, so that a second such write changes nothing.
C4_NullWriteIdempotent ==
    [][\A c \in Clients :
          /\ Answered(c, "POST day-schedules") /\ Falsy(req[c].arg.value) =>
               /\ req'[c].status = 200
               /\ day_schedules' = {r \in day_schedules : r.date # req[c].fd}
               /\ (\A r \in day_schedules : r.date # req[c].fd) => day_schedules' = day_schedules
          /\ Answered(c, "POST day-types") /\ Falsy(req[c].arg.value) =>
               /\ req'[c].status = 200
               /\ day_types' = {r \in day_types : r.date # req[c].fd}
               /\ (\A r \in day_types : r.date # req[c].fd) => day_types' = day_types
      ]_vars

\* C4 witness: a write with no value has succeeded and the table holds a row
\* of another date
C4_Witness ==
    \E c \in Clients :
        /\ Done(c, "POST day-schedules", 200) /\ Falsy(req[c].arg.value)
        /\ \E r \in day_schedules : r.date # req[c].result.date

\* C5: the tables day_schedules and day_types hold at most one row per date,
\* and every stored schedule is A or B, every stored type a text.
C5_OneRowPerDate ==
    /\ \A r1, r2 \in day_schedules : r1.date = r2.date => r1 = r2
    /\ \A r \in day_schedules : r.value \in {"A", "B"}
    /\ \A r1, r2 \in day_types : r1.date = r2.date => r1 = r2
    /\ \A r \in day_types : ~Falsy(r.value)

\* C5 witness: two clients have written different schedules for one date
C5_Witness ==
    /\ Done("c1", "POST day-schedules", 200) /\ Done("c2", "POST day-schedules", 200)
    /\ req["c1"].result.date = req["c2"].result.date
    /\ req["c1"].result.value = "A" /\ req["c2"].result.value = "B"
    /\ Cardinality(day_schedules) = 1

\* a request whose school is given and is neither wlhs nor wvhs, or a
\* material to create whose grade_level is given and is none of 9..12
OutOfDomain(r) ==
    \/ r.op = "GET events" /\ ~Falsy(r.arg) /\ r.arg \notin ValidSchools
    \/ r.op = "GET materials" /\ ~Falsy(r.arg.school) /\ r.arg.school \notin ValidSchools
    \/ r.op \in {"POST events", "POST materials"} /\ ~Falsy(r.arg.school)
         /\ r.arg.school \notin ValidSchools
    \/ r.op = "POST materials" /\ ~Falsy(r.arg.grade_level)
         /\ parseInt(r.arg.grade_level) \notin {9, 10, 11, 12}

C9_DeleteMissingIs404 ==
    \A c \in Clients :
        /\ req[c].pc = "done" /\ req[c].p # NoPool /\ ~req[c].faulted
        /\ \/ req[c].op = "DELETE events" /\ NoRowHasId(events, req[c].arg)
           \/ req[c].op = "DELETE materials" /\ NoRowHasId(materials, req[c].arg)
        => req[c].status = 404

\* a field of a payload as an update stores it: absent or empty, its default
Stored(field, default) == IF Falsy(field) THEN default ELSE field

\* C10: a successful update replaces title, department, time and description
\* of an event (title, link, description and password of a material) by the
\* payload's, an omitted optional field by its default; school, date,
\* grade_level, id and created_at of the row, and every other row, are
\* unchanged.
C10_UpdateReplaces ==
    [][\A c \in Clients :
          /\ Answered(c, "PUT events") /\ req'[c].status = 200 =>
               \E old \in events, new \in events' :
                   LET b == req[c].arg.body
                   IN  /\ ToString(old.id) = req[c].arg.id /\ new.id = old.id
                       /\ new.title = b.title
                       /\ new.department = Stored(b.department, Null)
                       /\ new.time = Stored(b.time, Null)
                       /\ new.description = Stored(b.description, "")
                       /\ new.school = old.school /\ new.date = old.date
                       /\ new.created_at = old.created_at
                       /\ events' \ {new} = events \ {old}
                       /\ Cardinality(events') = Cardinality(events)
                       /\ materials' = materials
          /\ Answered(c, "PUT materials") /\ req'[c].status = 200 =>
               \E old \in materials, new \in materials' :
                   LET b == req[c].arg.body
                   IN  /\ ToString(old.id) = req[c].arg.id /\ new.id = old.id
                       /\ new.title = b.title /\ new.link = b.link
                       /\ new.description = Stored(b.description, "")
                       /\ new.password = Stored(b.password, "")
                       /\ new.school = old.school /\ new.date = old.date
                       /\ new.grade_level = old.grade_level
                       /\ new.created_at = old.created_at
                       /\ materials' \ {new} = materials \ {old}
                       /\ Cardinality(materials') = Cardinality(materials)
                       /\ events' = events
      ]_vars

\* C10 witness: an update that omits department, time and description has
\* succeeded on one of two events, the other still carrying its own
C10_Witness ==
    \E c \in Clients :
        /\ Done(c, "PUT events", 200)
        /\ req[c].arg.body.department = Null /\ req[c].arg.body.description = Null
        /\ req[c].result.department = Null /\ req[c].result.description = ""
        /\ req[c].result.updated_at > req[c].result.created_at
        /\ \E r \in events : r.id # req[c].result.id /\ r.department = "d" /\ r.title = "t1"

\* C11: a DateConfig write onto a date that has a row overwrites exactly the
\* fields it supplies and retains the stored value of every field it omits;
\* the rows of other dates are unchanged.
C11_MergeKeepsOmitted ==
    [][\A c \in Clients :
          req[c].pc = "idle" /\ req'[c].pc = "done" /\ req'[c].op = "WRITE date-config" =>
              LET key == req'[c].arg.date
                  w == req'[c].arg.write
              IN  \A old \in date_configs : old.date = key =>
                      \E new \in date_configs' :
                          /\ new.date = key /\ new = req'[c].result
                          /\ new.color = (IF w.color = Null THEN old.color ELSE w.color)
                          /\ new.day_type = (IF w.day_type = Null THEN old.day_type ELSE w.day_type)
                          /\ new.is_access = (IF w.is_access = Null THEN old.is_access ELSE w.is_access)
                          /\ date_configs' \ {new} = date_configs \ {old}
      ]_vars

\* C11 witness: a write of is_access = true alone has left the row of its date
\* with a color and a day_type, which only an earlier write can have stored
C11_Witness ==
    \E c \in Clients :
        /\ Done(c, "WRITE date-config", 200)
        /\ req[c].arg.write = [color |-> Null, day_type |-> Null, is_access |-> "true"]
        /\ req[c].result = [date |-> req[c].arg.date, color |-> "#fff", day_type |-> "A",
                            is_access |-> "true"]
        /\ req[c].result \in date_configs

\* C12: the date a create returns, formatDate applied to the date value read
\* back from the store, is the date formatDate made of the input, whatever
\* the time zone of the process.
C12_DateRoundTrip ==
    \A c \in Clients :
        Done(c, "POST events", 201) \/ Done(c, "POST materials", 201) =>
            /\ formatDate(req[c].arg.date).tag = "ok"
            /\ req[c].result.date = formatDate(req[c].arg.date).day

\* the rows of a day table other than the row of a date
OtherDates(rows, date) == {r \in rows : r.date # date}

\* what a write of a value to a date makes of a day table at a step
Upserted(rows, rowsAfter, date, value) ==
    /\ \E new \in rowsAfter :
          /\ new.date = date /\ new.value = value
          /\ new.updated_at = now' /\ now' > now
          /\ \A old \in rows : old.date = date =>
                 new.created_at = old.created_at /\ new.updated_at > old.updated_at
          /\ (\A old \in rows : old.date # date) => new.created_at = now'
          /\ \A r \in rowsAfter : r.date = date => r = new
    /\ OtherDates(rowsAfter, date) = OtherDates(rows, date)

\* C13: a day-schedule or day-type write with a valid value makes the row of
\* its date hold exactly that value, inserted if absent and replaced if
\* present, with updated_at refreshed in both cases; the rows of every other
\* date are unchanged. The stored value is thus that of the last write
\* completed.
C13_UpsertReplaces ==
    [][\A c \in Clients :
          /\ Answered(c, "POST day-schedules") /\ req[c].arg.value \in {"A", "B"} =>
               /\ req'[c].status = 200
               /\ Upserted(day_schedules, day_schedules', req[c].fd, req[c].arg.value)
          /\ Answered(c, "POST day-types") /\ ~Falsy(req[c].arg.value) =>
               /\ req'[c].status = 200
               /\ Upserted(day_types, day_types', req[c].fd, req[c].arg.value)
      ]_vars

\* C13 witness: a write of B has replaced the row of its date, which was
\* created earlier, another date keeping its row
C13_Witness ==
    \E c \in Clients :
        /\ Done(c, "POST day-schedules", 200) /\ req[c].arg.value = "B"
        /\ \E r \in day_schedules :
              /\ r.date = req[c].result.date /\ r.value = "B"
              /\ r.updated_at > r.created_at
        /\ \E r \in day_schedules : r.date # req[c].result.date

\* C14: POST /api/day-schedules with a schedule that is given and is neither
\* A nor B, once it holds its connection, is answered 400, gives the
\* connection back, and leaves day_schedules as it was.
C14_InvalidScheduleRejected ==
    [][\A c \in Clients :
          /\ req[c].pc = "query" /\ req[c].op = "POST day-schedules"
          /\ ~Falsy(req[c].arg.value) /\ req[c].arg.value \notin {"A", "B"}
          /\ req'[c] # req[c]
          => /\ req'[c].pc = "done" /\ req'[c].status = 400
             /\ pools'[req[c].p].out = pools[req[c].p].out - 1
             /\ day_schedules' = day_schedules
      ]_vars

\* C14 witness: a write of schedule C was answered 400 while the date has a
\* row, and no client is checked out
C14_Witness ==
    \E c \in Clients :
        /\ Done(c, "POST day-schedules", 400) /\ req[c].arg.value = "C"
        /\ \E r \in day_schedules : r.date = req[c].fd /\ r.value \in {"A", "B"}
        /\ pools[req[c].p].out = 0

\* a required field of a material to create is missing
MaterialIncomplete(b) ==
    \/ Falsy(b.school) \/ b.date.kind = "absent" \/ Falsy(b.grade_level)
    \/ Falsy(b.title) \/ Falsy(b.link)

\* a required field of an event to create is missing
EventIncomplete(b) == Falsy(b.school) \/ b.date.kind = "absent" \/ Falsy(b.title)

Rejected(c, msg) == req[c].pc = "done" /\ req[c].status = 400 /\ req[c].result = msg

\* C15: a create is validated in a fixed order (with a pool configured): a
\* payload missing a required field is rejected with the required-fields
\* error, whatever its school and grade_level; a complete payload with an
\* invalid school is rejected with the school error, also when its
\* grade_level is invalid; only then is the grade_level checked.
C15_ValidationOrder ==
    \A c \in Clients :
        /\ req[c].op = "POST materials" /\ req[c].p # NoPool =>
             LET b == req[c].arg
             IN  IF MaterialIncomplete(b)
                 THEN Rejected(c, "School, date, grade_level, title, and link are required")
                 ELSE IF b.school \notin ValidSchools
                 THEN Rejected(c, "School must be wlhs or wvhs")
                 ELSE IF parseInt(b.grade_level) \notin {9, 10, 11, 12}
                 THEN Rejected(c, "Grade level must be 9, 10, 11, or 12")
                 ELSE ~(req[c].pc = "done" /\ req[c].status = 400)
        /\ req[c].op = "POST events" /\ req[c].p # NoPool =>
             LET b == req[c].arg
             IN  IF EventIncomplete(b)
                 THEN Rejected(c, "School, date, and title are required")
                 ELSE IF b.school \notin ValidSchools
                 THEN Rejected(c, "School must be wlhs or wvhs")
                 ELSE ~(req[c].pc = "done" /\ req[c].status = 400)

\* C15 witness: a complete material with an invalid school and an invalid
\* grade_level was rejected with the school error
C15_Witness ==
    \E c \in Clients :
        /\ req[c].op = "POST materials" /\ req[c].p # NoPool
        /\ ~MaterialIncomplete(req[c].arg)
        /\ req[c].arg.school = "other" /\ req[c].arg.grade_level = "13"
        /\ Rejected(c, "School must be wlhs or wvhs")

\* the statements a handler sends when none fails
Statements(op) ==
    IF op = "DELETE clear-all" THEN 8 ELSE IF op = "GET health" THEN 2 ELSE 1

\* C16: a statement that fails is not sent again and no statement follows
\* it: the step in which it fails answers the request 500 with the store's
\* message and changes no table, an answered request sends nothing more, and
\* no request sends more statements than its handler holds.
C16_NoRetry ==
    [][\A c \in Clients :
          /\ req[c].pc = "query" /\ req'[c].pc = "done" /\ req'[c].status = 500 =>
                /\ req'[c].sent = req[c].sent + 1
                /\ req'[c].result = "statement failed"
                /\ UNCHANGED tables
          /\ req[c].pc = "done" => req'[c].pc \in {"done", "idle"} /\ req'[c].sent \in {req[c].sent, 0}
          /\ req'[c].sent <= Statements(req'[c].op)
      ]_vars

\* C16 witness: the clearing of all tables was answered 500 for a DELETE that
\* failed after an earlier DELETE of the same request had succeeded
C16_Witness ==
    \E c \in Clients :
        /\ Done(c, "DELETE clear-all", 500) /\ req[c].faulted
        /\ req[c].sent \in 6..8

\* the clearing of all tables is answered 200 at this step
Cleared(c) ==
    /\ req[c].pc = "query" /\ req[c].op = "DELETE clear-all"
    /\ req'[c].pc = "done" /\ req'[c].status = 200

\* C19: when DELETE /api/admin/clear-all answers 200, the four tables are
\* empty and the count it reports of each table is the number of rows it
\* removed from it, also when writes of other clients interleave.
C19_ClearAllEmpties ==
    [][\A c \in Clients :
          Cleared(c) =>
              /\ events' = {} /\ materials' = {} /\ day_schedules' = {} /\ day_types' = {}
              /\ req'[c].result.cleared = req'[c].result.removed
      ]_vars

\* C18: a request that begins reads a global pool handle that is null or a
\* pool on which end() was not called, and end() is called at most once on
\* each pool, however POST /api/init interleaves with other requests.
C18_PoolNeverEnded ==
    [][/\ \A c \in Clients :
             req[c].pc = "idle" /\ req'[c].pc # "idle" =>
                 IF pool = NoPool THEN TRUE ELSE ~pools[pool].ended
       /\ \A p \in DOMAIN pools : pools'[p].ends <= 1
      ]_vars

\* C17: every request is answered in the end: none waits forever for a
\* connection, a statement or the end of a pool.
C17_EveryRequestAnswered ==
    \A c \in Clients : (req[c].pc \in {"connect", "query", "ending"}) ~> (req[c].pc = "done")

\* C6: for every valid event or material payload, a successful create
\* followed by a list for the same school returns exactly one record with the
\* new id; it matches all submitted fields, absent optional fields taking
\* their defaults, and its date is the normalized form of the input date.
C6_CreateThenList ==
    \A c \in Clients :
        /\ Done(c, "POST events", 201) =>
             LET b == req[c].arg
                 l == EventList(b.school)
                 hits == {i \in 1..Len(l) : l[i].id = req[c].result.id}
             IN  /\ Cardinality(hits) = 1
                 /\ \A i \in hits :
                      /\ l[i].school = b.school /\ l[i].title = b.title
                      /\ l[i].department = b.department /\ l[i].time = b.time
                      /\ l[i].description = (IF b.description = Null THEN "" ELSE b.description)
                      /\ l[i].date = formatDate(b.date).day
        /\ Done(c, "POST materials", 201) =>
             LET b == req[c].arg
                 l == MaterialList(b.school)
                 hits == {i \in 1..Len(l) : l[i].id = req[c].result.id}
             IN  /\ Cardinality(hits) = 1
                 /\ \A i \in hits :
                      /\ l[i].school = b.school /\ l[i].title = b.title
                      /\ l[i].link = b.link /\ l[i].grade_level = parseInt(b.grade_level)
                      /\ l[i].description = (IF b.description = Null THEN "" ELSE b.description)
                      /\ l[i].password = (IF b.password = Null THEN "" ELSE b.password)
                      /\ l[i].date = formatDate(b.date).day

\* C7: a list is ordered and total.  Events come by date ascending, then by
\* time (a row without a time after the rows with one), then by id; materials
\* by date, then grade_level, then id; two rows never tie, so events of one
\* date and time come in ascending id.  The list holds every row of the school
\* (and grade) asked for, once.
C7_ListOrdered ==
    \A c \in Clients :
        /\ Done(c, "GET events", 200) =>
             LET l == req[c].result
             IN  /\ \A i, j \in 1..Len(l) : i < j =>
                      \/ l[i].date < l[j].date
                      \/ l[i].date = l[j].date /\ TimeLess(l[i].time, l[j].time)
                      \/ l[i].date = l[j].date /\ l[i].time = l[j].time /\ l[i].id < l[j].id
                 /\ {l[i].id : i \in 1..Len(l)} = {r.id : r \in {e \in events : e.school = req[c].arg}}
        /\ Done(c, "GET materials", 200) =>
             LET l == req[c].result
                 q == req[c].arg
             IN  /\ \A i, j \in 1..Len(l) : i < j =>
                      \/ l[i].date < l[j].date
                      \/ l[i].date = l[j].date /\ l[i].grade_level < l[j].grade_level
                      \/ /\ l[i].date = l[j].date /\ l[i].grade_level = l[j].grade_level
                         /\ l[i].id < l[j].id
                 /\ {l[i].id : i \in 1..Len(l)} =
                        {r.id : r \in {m \in materials :
                            m.school = q.school /\ (q.grade = Null \/ m.grade_level = parseInt(q.grade))}}

\* C7 witness: a list of two events of one date and time, the second created
\* first in neither key
C7_Witness ==
    \E c \in Clients :
        /\ Done(c, "GET events", 200)
        /\ Len(req[c].result) = 2
        /\ req[c].result[1].date = req[c].result[2].date
        /\ req[c].result[1].time = req[c].result[2].time
        /\ req[c].result[1].id = 1 /\ req[c].result[2].id = 2

====
